---- MODULE Spec2Model ----
(***************************************************************************)
(* Model of the gmx_utils command-line scripts:                            *)
(*   gmx_utils/gmx_utils.py            run_gmx_cmd                         *)
(*   gmx_utils/cli/prep_simulation.py  the simulation preparation pipeline *)
(*   gmx_utils/cli/process_gmx_traj.py the trajectory processing pipeline  *)
(*                                                                         *)
(* Text is modelled as a sequence of tokens, in which "." and "/" are      *)
(* tokens of their own: 'box/box.gro' is <<"box", "/", "box", ".", "gro">>.*)
(* An argument list is a sequence of such texts.  The output of the        *)
(* external process is a sequence of lines, each "label: val".  A Python   *)
(* value that may be None, or a local that may be unbound, is a set with   *)
(* at most one element.                                                    *)
(***************************************************************************)
EXTENDS Integers, Sequences, FiniteSets, TLC

VARIABLES
    script,        \* which script the current process runs: "none", "prep", "traj"
    pc,            \* the position of the process in main()
    argv,          \* the command line the user gave
    args,          \* the result of initialize(argv)
    input_files,   \* the file names in args.input_dir (preparation pipeline)
    topology,      \* the file names in ./topology; persists between runs
    dirs,          \* the directories made in the working directory; persists
    calls,         \* the external calls issued by this run, in order
    copied_at,     \* the number of calls issued when the input files were copied
    input_gro,     \* local of prep main()
    input_top,     \* local of prep main()
    box_volume,    \* local of prep main()
    total_charge,  \* local of prep main(), in halves of the elementary charge
    n_sodium,      \* local of prep main()
    n_chloride,    \* local of prep main()
    cmd_list,      \* local of traj main()
    error,         \* the unhandled exception that ended the run
    completed      \* the "... completed successfully." line was printed

vars == <<script, pc, argv, args, input_files, topology, dirs, calls, copied_at,
          input_gro, input_top, box_volume, total_charge, n_sodium,
          n_chloride, cmd_list, error, completed>>

-----------------------------------------------------------------------------
(* Bounds of the model.                                                    *)

\* The external process exits with a code in 0..MaxExitCode.
MaxExitCode == 2

\* The net charge the tool reports lies in -MaxCharge..MaxCharge, in steps of 1/2.
MaxCharge == 2

-----------------------------------------------------------------------------
(* Python values.                                                          *)

None == {}

Some(x) == {x}

The(s) == CHOOSE x \in s : TRUE

\* A string literal without "." or "/".
Str(s) == <<s>>

\* bool(s) of a str
Truthy(s) == s /= <<>>

\* os.path.join(a, b)
PathJoin(a, b) == a \o <<"/">> \o b

\* name + '.' + ext
WithExt(name, ext) == name \o <<".", ext>>

\* The positions of "." in s.
DotPositions(s) == {i \in 1..Len(s) : s[i] = "."}

MaxOf(S) == CHOOSE m \in S : \A x \in S : x <= m

\* s.rsplit('.', 1)[0]
RSplitDotHead(s) ==
    IF DotPositions(s) = {} THEN s ELSE SubSeq(s, 1, MaxOf(DotPositions(s)) - 1)

\* str(n) of an int
IntStr(n) == <<ToString(n)>>

\* str(x) of a float with an integral value: 200.0 -> '200.0'
FloatStr(n) == <<ToString(n), ".", "0">>

\* abs(x)
Abs(x) == IF x < 0 THEN -x ELSE x

\* math.ceil(num / den), den > 0
CeilDiv(num, den) == -((-num) \div den)

\* A line "label: val" of the output of the external process.
Line(label, val) == [label |-> label, val |-> val]


-----------------------------------------------------------------------------
(* The external process: what the scripts cannot control.                  *)

ExitCodes == 0..MaxExitCode

\* Output of a call that exits non-zero.
ErrorOutputs == {<<Line("Fatal error", 0)>>}

\* Output of a successful call whose output is not parsed.
GenericOutputs == {<<Line("GROMACS reminds you", 0)>>}

\* Box volumes the tool may report, in nm^3.
BoxVolumes == {0, 11, 12, 343}

\* Output of a successful 'gmx editconf': the volume follows the last colon.
\* The empty output stands for an output without any number to parse.
VolumeOutputs ==
    {<<>>} \cup
    {<<Line("new box vectors", 7), Line("new box volume", v)>> : v \in BoxVolumes}

ChargeLabel == "System has non-zero total charge"

\* Net charges the tool may report, in halves of the elementary charge.
ChargeHalves == (0 - 2 * MaxCharge)..(2 * MaxCharge)

\* Output of a successful 'gmx grompp -f ions.mdp': a neutral system has no
\* charge line.
ChargeOutputs ==
    {<<Line("NOTE 1", 1)>>} \cup
    {<<Line("NOTE 1", 1), Line(ChargeLabel, h), Line("Excluding", 3)>> :
        h \in ChargeHalves} \cup
    {<<Line(ChargeLabel, 2), Line(ChargeLabel, 0 - 4)>>}

\* What the external process may do: exit zero with one of okOutputs, or exit
\* non-zero with an error text.
ProcResults(okOutputs) ==
    {[returncode |-> 0, output |-> o] : o \in okOutputs} \cup
    {[returncode |-> rc, output |-> o] : rc \in ExitCodes \ {0}, o \in ErrorOutputs}

-----------------------------------------------------------------------------
(* gmx_utils.py                                                            *)

\* arguments[:2]
FirstTwo(arguments) ==
    SubSeq(arguments, 1, IF Len(arguments) < 2 THEN Len(arguments) ELSE 2)

\* run_gmx_cmd without the check of lines 19-20: it returns whatever the exit code.
run_gmx_cmd_noraise(arguments, prompt_input, print_output, proc) ==
    [raised |-> FALSE, cmd |-> <<>>, returncode |-> proc.returncode,
     stdout |-> proc.output, printed |-> print_output]

\* run_gmx_cmd raising the error without the captured output.
run_gmx_cmd_nooutput(arguments, prompt_input, print_output, proc) ==
    IF proc.returncode /= 0
    THEN [raised |-> TRUE, cmd |-> FirstTwo(arguments),
          returncode |-> proc.returncode, stdout |-> <<>>, printed |-> FALSE]
    ELSE [raised |-> FALSE, cmd |-> <<>>, returncode |-> proc.returncode,
          stdout |-> proc.output, printed |-> print_output]

\* run_gmx_cmd(arguments, prompt_input, print_output), the external process
\* ending as proc.  subprocess.run(check=True) raises CalledProcessError on a
\* non-zero exit; both ways, returncode and stdout are those of the process.
\* raised: a RuntimeError carrying cmd, returncode and stdout was raised;
\* otherwise (returncode, stdout) is the value returned.
run_gmx_cmd(arguments, prompt_input, print_output, proc) ==
    LET returncode == proc.returncode
        stdout == proc.output
    IN  IF returncode /= 0
        THEN [raised |-> TRUE, cmd |-> FirstTwo(arguments),
              returncode |-> returncode, stdout |-> stdout, printed |-> FALSE]
        ELSE [raised |-> FALSE, cmd |-> <<>>, returncode |-> returncode,
              stdout |-> stdout, printed |-> print_output]

\* One external call, as recorded in calls.
Call(arguments, prompt_input, print_output, proc) ==
    [arguments |-> arguments, prompt_input |-> prompt_input,
     print_output |-> print_output, proc |-> proc,
     result |-> run_gmx_cmd(arguments, prompt_input, print_output, proc)]

\* The unhandled exception that ends a run.
NoError == [kind |-> "none", cmd |-> <<>>, returncode |-> 0, stdout |-> <<>>]

RuntimeError(result) ==
    [kind |-> "RuntimeError", cmd |-> result.cmd,
     returncode |-> result.returncode, stdout |-> result.stdout]

OtherError(kind) == [kind |-> kind, cmd |-> <<>>, returncode |-> 0, stdout |-> <<>>]

\* ['gmx', '--version']
VersionArgs == <<Str("gmx"), <<"--version">>>>

-----------------------------------------------------------------------------
(* Command lines.                                                          *)

DefaultTimeStep == 200

NoArgs ==
    [input_dir |-> None, mdp_dir |-> None, input |-> None, tpr |-> None,
     output |-> None, grps |-> None, time_step |-> None]

\* The file names an input directory may hold.
InputNames ==
    {<<"a", ".", "gro">>, <<"b", ".", "gro">>, <<"a", ".", "top">>, <<"b", ".", "top">>}

\* Command lines of prep_simulation: -i is required, -m is optional.
PrepArgvs ==
    {[NoArgs EXCEPT !.input_dir = Some(Str("inputs")), !.mdp_dir = m] :
        m \in {None, Some(Str("mdp"))}}

TrajNames == {<<"md", ".", "xtc">>, <<"md">>, <<"run", ".", "1", ".", "trr">>}

TprOptions == {None, Some(<<"topol", ".", "tpr">>), Some(<<>>)}

OutputOptions == {None, Some(<<"out", ".", "xtc">>), Some(<<>>)}

GrpsOptions == {None, Some(<<"Protein", "System", "Protein", "Protein">>)}

TimeStepOptions == {None, Some(0), Some(50), Some(200)}

\* Command lines of process_gmx_traj: -i is required, the rest is optional.
TrajArgvs ==
    {[NoArgs EXCEPT !.input = Some(i), !.tpr = t, !.output = o, !.grps = g,
                    !.time_step = d] :
        i \in TrajNames, t \in TprOptions, o \in OutputOptions,
        g \in GrpsOptions, d \in TimeStepOptions}

\* prep_simulation.initialize: no option of the model has a default.
prep_initialize(a) == a

\* A Python number: an int, or a float with an integral value.
PyInt(n) == [value |-> n, float |-> FALSE]

PyFloat(n) == [value |-> n, float |-> TRUE]

\* str(x) of a Python number: str(200) is '200', str(200.0) is '200.0'.
NumStr(x) == IF x.float THEN FloatStr(x.value) ELSE IntStr(x.value)

\* process_gmx_traj.initialize: type=float converts the text the user gives
\* for -dt; the default, the int 200, is left as it is.
traj_initialize(a) ==
    [a EXCEPT !.time_step =
        IF a.time_step = None THEN Some(PyInt(DefaultTimeStep))
        ELSE Some(PyFloat(The(a.time_step)))]

-----------------------------------------------------------------------------
(* prep_simulation.py                                                      *)

\* data.mdp_dir, the directory of the MDP files shipped with the package.
data_mdp_dir == Str("data_mdp_dir")

\* args.mdp_dir if args.mdp_dir else data.mdp_dir
MdpDir(a) ==
    IF a.mdp_dir /= None /\ Truthy(The(a.mdp_dir)) THEN The(a.mdp_dir) ELSE data_mdp_dir

\* The directories main() makes.
DirList ==
    {Str("topology"), Str("box"), Str("solv_ions"), Str("em"), Str("equil"),
     Str("production"), PathJoin(Str("equil"), Str("NVT")),
     PathJoin(Str("equil"), Str("NPT"))}

\* glob.glob(os.path.join(dir, '*.' + ext)) over the file names in files:
\* '*' matches any text, but no name that starts with a dot.
Glob(dir, files, ext) ==
    {PathJoin(dir, f) : f \in
        {g \in files : /\ Len(g) >= 2
                       /\ g[Len(g) - 1] = "."
                       /\ g[Len(g)] = ext
                       /\ g[1] /= "."}}

EditconfArgs(gro) ==
    <<Str("gmx"), Str("editconf"),
      Str("-f"), gro,
      Str("-o"), PathJoin(Str("box"), WithExt(Str("box"), "gro")),
      Str("-bt"), Str("cubic"),
      Str("-d"), FloatStr(1),
      Str("-c")>>

\* float(stdout.split(':')[-1].split()[0]); None when there is nothing to parse.
ParseVolume(stdout) ==
    IF stdout = <<>> THEN None ELSE Some(stdout[Len(stdout)].val)

SolvateArgs(top) ==
    <<Str("gmx"), Str("solvate"),
      Str("-cp"), PathJoin(Str("box"), WithExt(Str("box"), "gro")),
      Str("-o"), PathJoin(Str("solv_ions"), WithExt(Str("solv"), "gro")),
      Str("-p"), top,
      Str("-cs")>>

\* The 'gmx grompp' argument list of lines 103-110, 142-149, 159-166, 176-183.
GromppArgs(mdp, structure, top, tpr, maxwarn) ==
    <<Str("gmx"), Str("grompp"),
      Str("-f"), mdp,
      Str("-c"), structure,
      Str("-p"), top,
      Str("-o"), tpr,
      Str("-maxwarn"), IntStr(maxwarn)>>

GromppIonsArgs(mdp_dir, top) ==
    GromppArgs(PathJoin(mdp_dir, WithExt(Str("ions"), "mdp")),
               PathJoin(Str("solv_ions"), WithExt(Str("solv"), "gro")),
               top,
               PathJoin(Str("solv_ions"), WithExt(Str("ions"), "tpr")),
               1)

\* The lines of stdout that hold the charge label.
ChargeLines(stdout) == {i \in 1..Len(stdout) : stdout[i].label = ChargeLabel}

MinOf(S) == CHOOSE m \in S : \A x \in S : m <= x

\* The loop of lines 114-117 with a default: a missing line reads as charge 0.
ParseCharge_default(stdout) ==
    IF ChargeLines(stdout) = {} THEN Some(0)
    ELSE Some(stdout[MinOf(ChargeLines(stdout))].val)

\* The loop of lines 114-117: the charge of the first line with the label;
\* total_charge stays unbound when no line has it.
ParseCharge(stdout) ==
    IF ChargeLines(stdout) = {} THEN None
    ELSE Some(stdout[MinOf(ChargeLines(stdout))].val)

\* 1E-27 * 1000 * 0.15 * 6.022E23 = 0.09033 ions per nm^3, as a fraction.
IonsPerVolumeNum == 9033

IonsPerVolumeDen == 100000

\* n_ions = int(math.ceil(box_volume * 1E-27 * 1000 * 0.15 * 6.022E23))
NIons(volume) == CeilDiv(volume * IonsPerVolumeNum, IonsPerVolumeDen)

\* int(abs(total_charge)), the charge in halves: int() truncates.
IntAbsCharge(h) == Abs(h) \div 2

\* Lines 120-125 with the test reversed.
IonCounts_reversed(volume, h) ==
    IF h > 0
    THEN [n_chloride |-> NIons(volume), n_sodium |-> NIons(volume) + IntAbsCharge(h)]
    ELSE [n_sodium |-> NIons(volume), n_chloride |-> NIons(volume) + IntAbsCharge(h)]

\* Lines 119-125: the ion counts for a box volume and a charge (in halves).
IonCounts(volume, h) ==
    IF h < 0
    THEN [n_chloride |-> NIons(volume), n_sodium |-> NIons(volume) + IntAbsCharge(h)]
    ELSE [n_sodium |-> NIons(volume), n_chloride |-> NIons(volume) + IntAbsCharge(h)]

GenionArgs(top, np, nn) ==
    <<Str("gmx"), Str("genion"),
      Str("-s"), PathJoin(Str("solv_ions"), WithExt(Str("ions"), "tpr")),
      Str("-o"), PathJoin(Str("solv_ions"), WithExt(Str("ions"), "gro")),
      Str("-p"), top,
      Str("-pname"), Str("NA"),
      Str("-nname"), Str("CL"),
      Str("-np"), IntStr(np),
      Str("-nn"), IntStr(nn)>>

GromppEmArgs(mdp_dir, top) ==
    GromppArgs(PathJoin(mdp_dir, WithExt(Str("em"), "mdp")),
               PathJoin(Str("solv_ions"), WithExt(Str("ions"), "gro")),
               top,
               PathJoin(Str("em"), WithExt(Str("em"), "tpr")),
               1)

\* ['gmx', 'mdrun', '-deffnm', deffnm]
MdrunArgs(deffnm) == <<Str("gmx"), Str("mdrun"), Str("-deffnm"), deffnm>>

MdrunEmArgs == MdrunArgs(<<"em", "/", "em">>)

\* The NVT grompp call reading the structure the NVT run has yet to write.
GromppNvtArgs_ownoutput(mdp_dir, top) ==
    GromppArgs(PathJoin(mdp_dir, WithExt(Str("nvt_equil"), "mdp")),
               PathJoin(Str("equil"), PathJoin(Str("NVT"), WithExt(Str("equil"), "gro"))),
               top,
               PathJoin(Str("equil"), PathJoin(Str("NVT"), WithExt(Str("equil"), "tpr"))),
               1)

GromppNvtArgs(mdp_dir, top) ==
    GromppArgs(PathJoin(mdp_dir, WithExt(Str("nvt_equil"), "mdp")),
               PathJoin(Str("em"), WithExt(Str("em"), "gro")),
               top,
               PathJoin(Str("equil"), PathJoin(Str("NVT"), WithExt(Str("equil"), "tpr"))),
               1)

MdrunNvtArgs == MdrunArgs(<<"equil", "/", "NVT", "/", "equil">>)

GromppNptArgs(mdp_dir, top) ==
    GromppArgs(PathJoin(mdp_dir, WithExt(Str("npt_equil"), "mdp")),
               PathJoin(Str("equil"), PathJoin(Str("NVT"), WithExt(Str("equil"), "gro"))),
               top,
               PathJoin(Str("equil"), PathJoin(Str("NPT"), WithExt(Str("equil"), "tpr"))),
               2)

MdrunNptArgs == MdrunArgs(<<"equil", "/", "NPT", "/", "equil">>)

\* The order of the steps of prep main().
PrepOrder ==
    <<"version", "setup", "editconf", "solvate", "grompp_ions", "genion",
      "grompp_em", "mdrun_em", "grompp_nvt", "mdrun_nvt", "grompp_npt",
      "mdrun_npt", "done">>

\* The step that follows step in order.
After(order, step) ==
    order[1 + CHOOSE i \in 1..(Len(order) - 1) : order[i] = step]

\* prep main() without its solvation step.
PrepNext_nosolvate(step) ==
    IF step = "editconf" THEN "grompp_ions" ELSE After(PrepOrder, step)

\* The step prep main() goes to when step has succeeded.
PrepNext(step) == After(PrepOrder, step)

-----------------------------------------------------------------------------
(* process_gmx_traj.py                                                     *)

\* prefix = input_traj.rsplit('.', 1)[0]
Prefix(a) == RSplitDotHead(The(a.input))

\* tpr_file = args.tpr if args.tpr else f"{prefix}.tpr"
TprFile(a) ==
    IF a.tpr /= None /\ Truthy(The(a.tpr)) THEN The(a.tpr) ELSE WithExt(Prefix(a), "tpr")

\* output_traj = args.output if args.output else f"{prefix}_center.xtc"
OutputTraj(a) ==
    IF a.output /= None /\ Truthy(The(a.output)) THEN The(a.output)
    ELSE Prefix(a) \o <<"_center", ".", "xtc">>

\* grps = args.grps if args.grps else ['Backbone', 'System', 'Backbone', 'System']
Grps(a) ==
    IF a.grps /= None THEN The(a.grps) ELSE <<"Backbone", "System", "Backbone", "System">>

\* f'{prefix}_nojump.xtc'
NojumpFile(a) == Prefix(a) \o <<"_nojump", ".", "xtc">>

\* Lines 89-90 and 106-107: what 'if args.time_step:' appends; 0.0 is falsy.
DtArgs(a) ==
    IF The(a.time_step).value /= 0
    THEN <<Str("-dt"), NumStr(The(a.time_step))>>
    ELSE <<>>

TrjconvNojumpArgs(a) ==
    <<Str("gmx"), Str("trjconv"),
      Str("-s"), TprFile(a),
      Str("-f"), The(a.input),
      Str("-o"), NojumpFile(a),
      Str("-center"),
      Str("-pbc"), Str("nojump")>> \o DtArgs(a)

TrjconvWholeArgs(a) ==
    <<Str("gmx"), Str("trjconv"),
      Str("-s"), TprFile(a),
      Str("-f"), NojumpFile(a),
      Str("-o"), OutputTraj(a),
      Str("-center"),
      Str("-pbc"), Str("whole"),
      Str("-ur"), Str("compact")>> \o DtArgs(a)

\* f'{grps[i]}\n{grps[j]}\n'
Prompt(g, i, j) == <<g[i], "\n", g[j], "\n">>

\* The order of the steps of traj main().
TrajOrder == <<"version", "trjconv_nojump", "trjconv_whole", "done">>

\* traj main() without its second trjconv call.
TrajNext_nowhole(step) ==
    IF step = "trjconv_nojump" THEN "done" ELSE After(TrajOrder, step)

\* The step traj main() goes to when step has succeeded.
TrajNext(step) == After(TrajOrder, step)

-----------------------------------------------------------------------------
(* The state machine.                                                      *)

Init ==
    /\ script = "none"
    /\ pc = "idle"
    /\ argv = NoArgs
    /\ args = NoArgs
    /\ input_files = {}
    /\ topology = {}
    /\ dirs = {}
    /\ calls = <<>>
    /\ copied_at = None
    /\ input_gro = None
    /\ input_top = None
    /\ box_volume = None
    /\ total_charge = None
    /\ n_sodium = None
    /\ n_chloride = None
    /\ cmd_list = <<>>
    /\ error = NoError
    /\ completed = FALSE

prepLocals == <<input_gro, input_top, box_volume, total_charge, n_sodium, n_chloride>>

\* The shell starts prep_simulation: lines 43-49.
StartPrep ==
    /\ pc = "idle"
    /\ \E a \in PrepArgvs, files \in SUBSET InputNames :
        /\ argv' = a
        /\ args' = prep_initialize(a)
        /\ input_files' = files
    /\ script' = "prep"
    /\ pc' = "version"
    /\ UNCHANGED <<topology, dirs, calls, copied_at, prepLocals, cmd_list, error,
                   completed>>

\* The shell starts process_gmx_traj: lines 61-67.
StartTraj ==
    /\ pc = "idle"
    /\ \E a \in TrajArgvs :
        /\ argv' = a
        /\ args' = traj_initialize(a)
    /\ script' = "traj"
    /\ pc' = "version"
    /\ UNCHANGED <<input_files, topology, dirs, calls, copied_at, prepLocals,
                   cmd_list, error, completed>>

\* The call c was issued: it is recorded, and a RuntimeError ends the run.
Issued(c, next) ==
    /\ calls' = Append(calls, c)
    /\ IF c.result.raised
       THEN pc' = "error" /\ error' = RuntimeError(c.result)
       ELSE pc' = next /\ UNCHANGED error

\* A step that issues one call and parses nothing.
Step(arguments, prompt_input, next) ==
    \E proc \in ProcResults(GenericOutputs) :
        Issued(Call(arguments, prompt_input, TRUE, proc), next)

\* prep line 52, traj line 70: the installation check.
VersionCheck ==
    /\ pc = "version"
    /\ \E proc \in ProcResults(GenericOutputs) :
        Issued(Call(VersionArgs, None, FALSE, proc),
               IF script = "prep" THEN PrepNext("version") ELSE TrajNext("version"))
    /\ UNCHANGED <<script, argv, args, input_files, topology, dirs, copied_at,
                   prepLocals, cmd_list, completed>>

\* prep lines 54-73: the directories, the copy of the input files, the globs
\* and the two assertions.
Setup ==
    /\ script = "prep" /\ pc = "setup"
    /\ dirs' = dirs \cup DirList
    /\ topology' = topology \cup input_files
    /\ copied_at' = Some(Len(calls))
    /\ LET gro_list == Glob(Str("topology"), topology', "gro")
           top_list == Glob(Str("topology"), topology', "top")
       IN  IF Cardinality(gro_list) /= 1 \/ Cardinality(top_list) /= 1
           THEN /\ pc' = "error"
                /\ error' = OtherError("AssertionError")
                /\ UNCHANGED <<input_gro, input_top>>
           ELSE /\ pc' = PrepNext("setup")
                /\ input_gro' = Some(The(gro_list))
                /\ input_top' = Some(The(top_list))
                /\ UNCHANGED error
    /\ UNCHANGED <<script, argv, args, input_files, calls, box_volume,
                   total_charge, n_sodium, n_chloride, cmd_list, completed>>

\* prep lines 75-87: box creation, and the volume parsed from its output.
Editconf ==
    /\ script = "prep" /\ pc = "editconf"
    /\ \E proc \in ProcResults(VolumeOutputs) :
        LET c == Call(EditconfArgs(The(input_gro)), None, TRUE, proc) IN
        /\ calls' = Append(calls, c)
        /\ IF c.result.raised
           THEN /\ pc' = "error" /\ error' = RuntimeError(c.result)
                /\ UNCHANGED box_volume
           ELSE IF ParseVolume(c.result.stdout) = None
           THEN /\ pc' = "error" /\ error' = OtherError("IndexError")
                /\ UNCHANGED box_volume
           ELSE /\ pc' = PrepNext("editconf")
                /\ box_volume' = ParseVolume(c.result.stdout)
                /\ UNCHANGED error
    /\ UNCHANGED <<script, argv, args, input_files, topology, dirs, copied_at,
                   input_gro, input_top, total_charge, n_sodium, n_chloride,
                   cmd_list, completed>>

\* prep lines 89-99.
Solvate ==
    /\ script = "prep" /\ pc = "solvate"
    /\ Step(SolvateArgs(The(input_top)), None, PrepNext("solvate"))
    /\ UNCHANGED <<script, argv, args, input_files, topology, dirs, copied_at,
                   prepLocals, cmd_list, completed>>

\* prep lines 101-125: the first call of the ion addition, the charge parsed
\* from its output, and the ion counts.
GromppIons ==
    /\ script = "prep" /\ pc = "grompp_ions"
    /\ \E proc \in ProcResults(ChargeOutputs) :
        LET c == Call(GromppIonsArgs(MdpDir(args), The(input_top)), None, TRUE, proc)
            charge == ParseCharge(c.result.stdout)
        IN
        /\ calls' = Append(calls, c)
        /\ IF c.result.raised
           THEN /\ pc' = "error" /\ error' = RuntimeError(c.result)
                /\ UNCHANGED <<total_charge, n_sodium, n_chloride>>
           ELSE IF charge = None
           THEN /\ pc' = "error" /\ error' = OtherError("UnboundLocalError")
                /\ UNCHANGED <<total_charge, n_sodium, n_chloride>>
           ELSE /\ pc' = PrepNext("grompp_ions")
                /\ total_charge' = charge
                /\ n_sodium' = Some(IonCounts(The(box_volume), The(charge)).n_sodium)
                /\ n_chloride' = Some(IonCounts(The(box_volume), The(charge)).n_chloride)
                /\ UNCHANGED error
    /\ UNCHANGED <<script, argv, args, input_files, topology, dirs, copied_at,
                   input_gro, input_top, box_volume, cmd_list, completed>>

\* prep lines 127-138: the second call of the ion addition.
Genion ==
    /\ script = "prep" /\ pc = "genion"
    /\ Step(GenionArgs(The(input_top), The(n_sodium), The(n_chloride)),
            Some(<<"SOL", "\n">>), PrepNext("genion"))
    /\ UNCHANGED <<script, argv, args, input_files, topology, dirs, copied_at,
                   prepLocals, cmd_list, completed>>

\* prep lines 140-151.
GromppEm ==
    /\ script = "prep" /\ pc = "grompp_em"
    /\ Step(GromppEmArgs(MdpDir(args), The(input_top)), None, PrepNext("grompp_em"))
    /\ UNCHANGED <<script, argv, args, input_files, topology, dirs, copied_at,
                   prepLocals, cmd_list, completed>>

\* prep lines 153-155.
MdrunEm ==
    /\ script = "prep" /\ pc = "mdrun_em"
    /\ Step(MdrunEmArgs, None, PrepNext("mdrun_em"))
    /\ UNCHANGED <<script, argv, args, input_files, topology, dirs, copied_at,
                   prepLocals, cmd_list, completed>>

\* prep lines 157-168.
GromppNvt ==
    /\ script = "prep" /\ pc = "grompp_nvt"
    /\ Step(GromppNvtArgs(MdpDir(args), The(input_top)), None, PrepNext("grompp_nvt"))
    /\ UNCHANGED <<script, argv, args, input_files, topology, dirs, copied_at,
                   prepLocals, cmd_list, completed>>

\* prep lines 170-172.
MdrunNvt ==
    /\ script = "prep" /\ pc = "mdrun_nvt"
    /\ Step(MdrunNvtArgs, None, PrepNext("mdrun_nvt"))
    /\ UNCHANGED <<script, argv, args, input_files, topology, dirs, copied_at,
                   prepLocals, cmd_list, completed>>

\* prep lines 174-185.
GromppNpt ==
    /\ script = "prep" /\ pc = "grompp_npt"
    /\ Step(GromppNptArgs(MdpDir(args), The(input_top)), None, PrepNext("grompp_npt"))
    /\ UNCHANGED <<script, argv, args, input_files, topology, dirs, copied_at,
                   prepLocals, cmd_list, completed>>

\* prep lines 187-192: the last call, and the message that ends a run.
MdrunNpt ==
    /\ script = "prep" /\ pc = "mdrun_npt"
    /\ Step(MdrunNptArgs, None, PrepNext("mdrun_npt"))
    /\ completed' = (pc' = "done")
    /\ UNCHANGED <<script, argv, args, input_files, topology, dirs, copied_at,
                   prepLocals, cmd_list>>

\* traj lines 72-94: the first trjconv call.
TrjconvNojump ==
    /\ script = "traj" /\ pc = "trjconv_nojump"
    /\ cmd_list' = Append(cmd_list, TrjconvNojumpArgs(args))
    /\ Step(TrjconvNojumpArgs(args), Some(Prompt(Grps(args), 1, 2)),
            TrajNext("trjconv_nojump"))
    /\ UNCHANGED <<script, argv, args, input_files, topology, dirs, copied_at,
                   prepLocals, completed>>

\* traj lines 96-118: the second trjconv call, the summary and the message
\* that ends a run.
TrjconvWhole ==
    /\ script = "traj" /\ pc = "trjconv_whole"
    /\ cmd_list' = Append(cmd_list, TrjconvWholeArgs(args))
    /\ Step(TrjconvWholeArgs(args), Some(Prompt(Grps(args), 3, 4)),
            TrajNext("trjconv_whole"))
    /\ completed' = (pc' = "done")
    /\ UNCHANGED <<script, argv, args, input_files, topology, dirs, copied_at,
                   prepLocals>>

\* The process ends, by the end of main() or by an unhandled exception; the
\* working directory stays.
Exit ==
    /\ pc \in {"done", "error"}
    /\ script' = "none"
    /\ pc' = "idle"
    /\ argv' = NoArgs
    /\ args' = NoArgs
    /\ input_files' = {}
    /\ calls' = <<>>
    /\ copied_at' = None
    /\ input_gro' = None
    /\ input_top' = None
    /\ box_volume' = None
    /\ total_charge' = None
    /\ n_sodium' = None
    /\ n_chloride' = None
    /\ cmd_list' = <<>>
    /\ error' = NoError
    /\ completed' = FALSE
    /\ UNCHANGED <<topology, dirs>>

Next ==
    \/ StartPrep
    \/ StartTraj
    \/ VersionCheck
    \/ Setup
    \/ Editconf
    \/ Solvate
    \/ GromppIons
    \/ Genion
    \/ GromppEm
    \/ MdrunEm
    \/ GromppNvt
    \/ MdrunNvt
    \/ GromppNpt
    \/ MdrunNpt
    \/ TrjconvNojump
    \/ TrjconvWhole
    \/ Exit

Spec == Init /\ [][Next]_vars

-----------------------------------------------------------------------------
(* Reading the recorded calls.                                             *)

\* The subcommand of a call: 'editconf', 'grompp', ..., '--version'.
Subcommand(c) == c.arguments[2][1]

HasFlag(c, flag) == \E i \in 1..Len(c.arguments) : c.arguments[i] = Str(flag)

\* The argument that follows flag.
ArgValue(c, flag) ==
    c.arguments[1 + CHOOSE i \in 1..(Len(c.arguments) - 1) : c.arguments[i] = Str(flag)]

Failed(c) == c.proc.returncode /= 0

\* What tells a call from the others of its subcommand: the MDP file of a
\* grompp call, the -deffnm of an mdrun call, the -pbc of a trjconv call.
CallLabel(c) ==
    CASE Subcommand(c) = "grompp" -> <<"grompp">> \o ArgValue(c, "-f")
      [] Subcommand(c) = "mdrun" -> <<"mdrun">> \o ArgValue(c, "-deffnm")
      [] Subcommand(c) = "trjconv" -> <<"trjconv">> \o ArgValue(c, "-pbc")
      [] OTHER -> <<Subcommand(c)>>

CallLabels == [i \in 1..Len(calls) |-> CallLabel(calls[i])]

IsPrefix(s, t) == Len(s) <= Len(t) /\ s = SubSeq(t, 1, Len(s))

\* The structure or trajectory file the tool reads for a call.
StructureInput(c) ==
    CASE Subcommand(c) = "editconf" -> {ArgValue(c, "-f")}
      [] Subcommand(c) = "solvate" -> {ArgValue(c, "-cp")}
      [] Subcommand(c) = "grompp" -> {ArgValue(c, "-c")}
      [] Subcommand(c) = "genion" -> {ArgValue(c, "-s")}
      [] Subcommand(c) = "mdrun" -> {WithExt(ArgValue(c, "-deffnm"), "tpr")}
      [] Subcommand(c) = "trjconv" -> {ArgValue(c, "-f")}
      [] OTHER -> {}

\* The structure, run input or trajectory file the tool writes for a call.
DeclaredOutput(c) ==
    CASE Subcommand(c) = "mdrun" -> {WithExt(ArgValue(c, "-deffnm"), "gro")}
      [] Subcommand(c) = "--version" -> {}
      [] OTHER -> {ArgValue(c, "-o")}

\* The files a run is given: they are no intermediate files.
RunInputs == input_gro \cup args.input

-----------------------------------------------------------------------------
(* The claims.                                                             *)

\* C1: for every argument list and exit code, run_gmx_cmd returns the pair
\* (exit code, captured output) when the process exits zero, and raises an
\* error carrying the command name, the exit code and the full captured
\* output when it exits non-zero, whatever print_output is.
RunnerReturnsOrRaises ==
    \A i \in 1..Len(calls) :
        LET c == calls[i] IN
        /\ c.result.returncode = c.proc.returncode
        /\ c.result.stdout = c.proc.output
        /\ c.result.raised <=> c.proc.returncode /= 0
        /\ c.result.raised => c.result.cmd = <<c.arguments[1], c.arguments[2]>>
        /\ (c.result.raised /\ i = Len(calls)) =>
              error = [kind |-> "RuntimeError", cmd |-> <<c.arguments[1], c.arguments[2]>>,
                       returncode |-> c.proc.returncode, stdout |-> c.proc.output]

\* A run whose silent installation check returned and whose next, printing
\* call raised.
RunnerBothWays ==
    /\ Len(calls) = 2
    /\ ~calls[1].print_output /\ ~Failed(calls[1]) /\ ~calls[1].result.raised
    /\ calls[2].print_output /\ Failed(calls[2]) /\ calls[2].result.raised
    /\ pc = "error"

\* C2: a non-zero exit of an external call is fatal in both pipelines: no
\* call follows it, no call is issued twice in a run, and the run does not
\* print its 'completed successfully' message.
FailureIsFatal ==
    /\ \A i \in 1..Len(calls) :
          Failed(calls[i]) =>
              /\ i = Len(calls)
              /\ pc = "error"
              /\ error.kind = "RuntimeError"
              /\ ~completed
    /\ \A i, j \in 1..Len(calls) :
          i /= j => calls[i].arguments /= calls[j].arguments

\* A run that ended on the failure of a call in the middle of a pipeline.
FailedMidway ==
    /\ pc = "error"
    /\ Len(calls) >= 3
    /\ Failed(calls[Len(calls)])

\* C3, as stated: a preparation run whose calls all exit zero copies the
\* input files first and then issues exactly six calls to the external tool.
PrepIssuesSixCalls ==
    (script = "prep" /\ pc = "done") => copied_at = Some(0) /\ Len(calls) = 6

\* The calls of a preparation run that completes.
PrepCallLabels ==
    <<<<"--version">>,
      <<"editconf">>,
      <<"solvate">>,
      <<"grompp">> \o PathJoin(MdpDir(args), <<"ions", ".", "mdp">>),
      <<"genion">>,
      <<"grompp">> \o PathJoin(MdpDir(args), <<"em", ".", "mdp">>),
      <<"mdrun", "em", "/", "em">>,
      <<"grompp">> \o PathJoin(MdpDir(args), <<"nvt_equil", ".", "mdp">>),
      <<"mdrun", "equil", "/", "NVT", "/", "equil">>,
      <<"grompp">> \o PathJoin(MdpDir(args), <<"npt_equil", ".", "mdp">>),
      <<"mdrun", "equil", "/", "NPT", "/", "equil">>>>

\* C3, amended: a preparation run issues the installation check, then copies
\* the input files, then issues its calls in the order editconf, solvate,
\* grompp and genion (ions), grompp and mdrun (minimization), grompp and
\* mdrun (NVT), grompp and mdrun (NPT); a run that completes has issued
\* exactly these eleven calls, ten of them after the copy.
PrepCallOrder ==
    script = "prep" =>
        /\ IsPrefix(CallLabels, PrepCallLabels)
        /\ copied_at /= None => copied_at = Some(1)
        /\ Len(calls) >= 2 => copied_at /= None
        /\ pc = "done" => (Len(calls) = 11 /\ Len(calls) - The(copied_at) = 10)

PrepCompleted == script = "prep" /\ pc = "done" /\ completed /\ Len(calls) = 11

\* C4, as stated: a trajectory run whose calls all exit zero issues exactly
\* two calls to the external tool.
TrajIssuesTwoCalls ==
    (script = "traj" /\ pc = "done") => Len(calls) = 2

\* C4, amended: a trajectory run issues the installation check, then the
\* nojump trjconv call, then the whole/compact trjconv call; a run that
\* completes has issued exactly these three calls, two of them trjconv calls.
TrajCallOrder ==
    script = "traj" =>
        /\ IsPrefix(CallLabels,
                    <<<<"--version">>, <<"trjconv", "nojump">>, <<"trjconv", "whole">>>>)
        /\ pc = "done" =>
              /\ Len(calls) = 3
              /\ ArgValue(calls[3], "-ur") = Str("compact")
              /\ Cardinality({i \in 1..3 : Subcommand(calls[i]) = "trjconv"}) = 2

TrajCompleted == script = "traj" /\ pc = "done" /\ completed /\ Len(calls) = 3

\* C5: with n the base ion count of the box volume and q the integer net
\* charge parsed, a negative q gives chloride = n and sodium = n + |q|, any
\* other q gives sodium = n and chloride = n + |q|; the counts passed to
\* genion satisfy sodium - chloride = -q and are both at least n.
IonSignRule ==
    (script = "prep" /\ n_sodium /= None /\ The(total_charge) % 2 = 0) =>
        LET q == The(total_charge) \div 2
            n == NIons(The(box_volume))
            sodium == The(n_sodium)
            chloride == The(n_chloride)
        IN  /\ q < 0 => (chloride = n /\ sodium = n + Abs(q))
            /\ q >= 0 => (sodium = n /\ chloride = n + Abs(q))
            /\ sodium - chloride = 0 - q
            /\ sodium >= n /\ chloride >= n
            /\ \A i \in 1..Len(calls) :
                  Subcommand(calls[i]) = "genion" =>
                      /\ ArgValue(calls[i], "-np") = <<ToString(sodium)>>
                      /\ ArgValue(calls[i], "-nn") = <<ToString(chloride)>>

\* The genion call was issued for a system of charge -2 in a box of 343 nm^3.
NegativeChargeNeutralized ==
    /\ script = "prep"
    /\ total_charge = Some(0 - 4)
    /\ box_volume = Some(343)
    /\ \E i \in 1..Len(calls) :
          /\ Subcommand(calls[i]) = "genion"
          /\ ArgValue(calls[i], "-np") = <<"33">>
          /\ ArgValue(calls[i], "-nn") = <<"31">>

\* The call is the 'gmx grompp -f ions.mdp' call, it exited zero, and no line
\* of its output has the charge label.
IonsGromppWithoutCharge(c) ==
    /\ Subcommand(c) = "grompp"
    /\ ArgValue(c, "-o") = <<"solv_ions", "/", "ions", ".", "tpr">>
    /\ c.proc.returncode = 0
    /\ \A k \in 1..Len(c.proc.output) :
          c.proc.output[k].label /= "System has non-zero total charge"

\* C6: when the ions grompp call exits zero and its output has no line with
\* 'System has non-zero total charge:', the run ends with an unhandled error
\* before genion is issued: no charge is substituted, no later step runs.
MissingChargeLineEndsRun ==
    \A i \in 1..Len(calls) :
        IonsGromppWithoutCharge(calls[i]) =>
            /\ i = Len(calls)
            /\ pc = "error"
            /\ error.kind = "UnboundLocalError"
            /\ total_charge = None /\ n_sodium = None /\ n_chloride = None
            /\ ~completed

NeutralSystemStopped ==
    /\ pc = "error"
    /\ error.kind = "UnboundLocalError"
    /\ Len(calls) = 4
    /\ IonsGromppWithoutCharge(calls[4])

\* C7: a trjconv call is given -dt if and only if the user gave -dt.
DtOnlyWhenGiven ==
    script = "traj" =>
        \A i \in 1..Len(calls) :
            Subcommand(calls[i]) = "trjconv" =>
                (HasFlag(calls[i], "-dt") <=> argv.time_step /= None)

\* C8: without -o the final trjconv call writes <prefix>_center.pdb, and
\* without -t both trjconv calls read <prefix>.tpr, <prefix> being the input
\* file name without its last extension.
DefaultOutputIsCenterPdb ==
    script = "traj" =>
        \A i \in 1..Len(calls) :
            Subcommand(calls[i]) = "trjconv" =>
                /\ (argv.output = None /\ ArgValue(calls[i], "-pbc") = Str("whole")) =>
                      ArgValue(calls[i], "-o") =
                          RSplitDotHead(The(argv.input)) \o <<"_center", ".", "pdb">>
                /\ argv.tpr = None =>
                      ArgValue(calls[i], "-s") =
                          RSplitDotHead(The(argv.input)) \o <<".", "tpr">>

\* The input directory holds exactly one .gro file and exactly one .top file.
OneGroOneTop(files) ==
    /\ Cardinality({f \in files : f[Len(f)] = "gro"}) = 1
    /\ Cardinality({f \in files : f[Len(f)] = "top"}) = 1

\* C9: over any sequence of preparation runs in one working directory, a run
\* whose installation check exited zero reaches the box creation call if and
\* only if its input directory holds exactly one .gro file and exactly one
\* .top file; otherwise it stops at the assertion.
BoxCreationIffOneGroOneTop ==
    (script = "prep" /\ copied_at /= None) =>
        /\ pc /= "setup"
        /\ OneGroOneTop(input_files) <=> input_gro /= None
        /\ ~OneGroOneTop(input_files) =>
              (pc = "error" /\ error.kind = "AssertionError" /\ Len(calls) = 1)

\* The chains of both pipelines, call by call: box.gro -> solv.gro ->
\* ions.tpr -> ions.gro -> em.tpr -> em.gro -> NVT equil.tpr -> NVT equil.gro
\* -> NPT equil.tpr, and <prefix>_nojump.xtc between the two trjconv calls.
ChainsAsDocumented ==
    /\ (script = "prep" /\ Len(calls) = 11) =>
          /\ StructureInput(calls[2]) = input_gro
          /\ DeclaredOutput(calls[2]) = {<<"box", "/", "box", ".", "gro">>}
          /\ \A i \in 3..11 : StructureInput(calls[i]) = DeclaredOutput(calls[i - 1])
    /\ (script = "traj" /\ Len(calls) = 3) =>
          /\ StructureInput(calls[2]) = args.input
          /\ StructureInput(calls[3]) = DeclaredOutput(calls[2])
          /\ StructureInput(calls[3]) =
                {RSplitDotHead(The(argv.input)) \o <<"_nojump", ".", "xtc">>}

\* C10: in both pipelines, every intermediate file a call reads as its
\* structure or trajectory input is the declared output of an earlier call of
\* the same run that exited zero, along the documented chains; no call is
\* issued before the call that produces its input has returned.
InputsComeFromEarlierCalls ==
    /\ \A i \in 1..Len(calls) :
          \A f \in StructureInput(calls[i]) \ RunInputs :
              \E j \in 1..(i - 1) :
                  /\ ~Failed(calls[j])
                  /\ ~calls[j].result.raised
                  /\ f \in DeclaredOutput(calls[j])
    /\ ChainsAsDocumented

\* A preparation run issued its last call: the whole chain was read.
ChainRead ==
    /\ script = "prep"
    /\ Len(calls) = 11
    /\ StructureInput(calls[11]) = {<<"equil", "/", "NPT", "/", "equil", ".", "tpr">>}

=============================================================================
